---- MODULE Spec2Model ----
(***************************************************************************)
(* PostgresDriver (dialect/postgres/postgres-driver.ts): the driver's      *)
(* pool handle, its identity cache of connection wrappers, and the calls   *)
(* init / destroy / acquire / release / executeQuery issued by several     *)
(* logical callers.  Every `await` of the source is a point where a call   *)
(* is suspended and other calls may run, so each call is a small process   *)
(* with a program counter.                                                 *)
(*                                                                         *)
(* The lifecycle guards of the base class Driver (driver/driver.ts) are    *)
(* not part of the file; they are modelled from the specification and are  *)
(* kept in separate definitions (initValid, destroyValid, acquireValid,    *)
(* releaseValid, and the variables state and initCalled).                  *)
(*                                                                         *)
(* pg.Pool is the environment: pgPool models the pool object the driver    *)
(* constructs, with the behaviour of connect / release / end the driver    *)
(* relies on.                                                              *)
(***************************************************************************)
EXTENDS Integers, Sequences, FiniteSets, TLC

\* ------------------------------------------------------------------ bounds
\* config.pool.maxConnections and config.pool.connectionTimeoutMillis
MaxConnections == 1
ConnectionTimeoutMillis == 1

\* the largest affected-row count and number of rows of a backend result
MaxRows == 2

\* The logical callers, and the identities of the physical connections (PoolClient
\* objects) the pool can create over its life.  A closed client's identity is not
\* reused, so with MaxConnections = 1 the pool can replace its client once.
Callers == {1, 2}
Clients == {1, 2}

VARIABLES
  state,         \* Driver lifecycle (base class): Uninitialized, Initialized, Destroyed
  initCalled,    \* base class: init has been called
  pool,          \* #pool: 0 is null, otherwise the pool's number
  connections,   \* #connections: client -> wrapper number, 0 is no entry
  wrappers,      \* the PostgresConnection objects created so far: wrappers[w] is #client
  pgPool,        \* the pg.Pool object
  poolsCreated,  \* how many times `new pg.Pool` ran
  endCalls,      \* how many times pool.end() was called
  hookCalls,     \* client -> number of onCreateConnection invocations for its wrapper
  firstConn,     \* client -> the wrapper the first acquire of it obtained
  pc,            \* caller -> where its current call is suspended
  conn,          \* caller -> the wrapper of its suspended acquire or executeQuery
  held,          \* caller -> wrappers it acquired and has not released
  kept,          \* caller -> wrappers it released and still references
  ev,            \* <<caller, operation, outcome>> when the step just taken returned a call
  sent,          \* caller -> times its executeQuery in flight has sent the statement
  cfgHook,       \* config.pool.onCreateConnection is given
  pgInstalled    \* import('pg') resolves

vars == <<state, initCalled, pool, connections, wrappers, pgPool, poolsCreated,
          endCalls, hookCalls, firstConn, pc, conn, held, kept, ev,
          sent, cfgHook, pgInstalled>>

driverVars == <<state, initCalled, pool, connections, wrappers, pgPool,
                poolsCreated, endCalls, hookCalls, firstConn>>

\* ------------------------------------------------------------------ config
config ==
  [pool |-> [connectionTimeoutMillis |-> ConnectionTimeoutMillis,
             maxConnections |-> MaxConnections]]

\* ------------------------------------------------------------------ pg.Pool
NoPool ==
  [max |-> 0, connectionTimeoutMillis |-> 0,
   clients |-> [k \in Clients |-> "none"],
   connFor |-> [k \in Clients |-> 0],
   idle |-> <<>>, pending |-> <<>>,
   reply |-> [c \in Callers |-> 0],
   ending |-> FALSE, ended |-> FALSE]

\* newPool with `max` one too large
newPoolMaxOffByOne(cfg) ==
  [NoPool EXCEPT !.max = cfg.pool.maxConnections + 1,
                 !.connectionTimeoutMillis = cfg.pool.connectionTimeoutMillis]

\* newPool without the connectionTimeoutMillis option: the pool never times out
newPoolNoTimeout(cfg) ==
  [NoPool EXCEPT !.max = cfg.pool.maxConnections]

\* newPool that opens a connection when it is constructed
newPoolEager(cfg) ==
  [NoPool EXCEPT !.max = cfg.pool.maxConnections,
                 !.connectionTimeoutMillis = cfg.pool.connectionTimeoutMillis,
                 !.clients[1] = "idle", !.idle = <<1>>]

\* new pg.Pool({... connectionTimeoutMillis, idleTimeoutMillis, max })
newPool(cfg) ==
  [NoPool EXCEPT !.max = cfg.pool.maxConnections,
                 !.connectionTimeoutMillis = cfg.pool.connectionTimeoutMillis]

liveClients(p) == {k \in Clients : p.clients[k] \in {"connecting", "idle", "out"}}

isFull(p) == Cardinality(liveClients(p)) >= p.max

hasFresh(p) == \E k \in Clients : p.clients[k] = "none"

fresh(p) == CHOOSE k \in Clients :
              /\ p.clients[k] = "none"
              /\ \A j \in Clients : p.clients[j] = "none" => k <= j

newClient(p, c) ==
  [p EXCEPT !.clients[fresh(p)] = "connecting", !.connFor[fresh(p)] = c]

pulseQueue(p) ==
  IF p.ended THEN p
  ELSE IF p.ending THEN
    LET cl == [k \in Clients |->
                 IF p.clients[k] = "idle" THEN "removed" ELSE p.clients[k]]
    IN  [p EXCEPT !.clients = cl, !.idle = <<>>,
                  !.ended = \A k \in Clients : cl[k] \notin {"connecting", "out"}]
  ELSE IF p.pending = <<>> THEN p
  ELSE IF p.idle = <<>> /\ isFull(p) THEN p
  ELSE IF p.idle # <<>> THEN
    LET k == p.idle[Len(p.idle)]
        c == Head(p.pending)
    IN  [p EXCEPT !.idle = SubSeq(@, 1, Len(@) - 1),
                  !.pending = Tail(@),
                  !.clients[k] = "out",
                  !.reply[c] = k]
  ELSE IF hasFresh(p) THEN
    [newClient(p, Head(p.pending)) EXCEPT !.pending = Tail(@)]
  ELSE p

\* pool.connect() called by caller c
pgConnect(p, c) ==
  IF p.ending THEN [p EXCEPT !.reply[c] = -1]
  ELSE IF isFull(p) \/ p.idle # <<>> THEN [p EXCEPT !.pending = Append(@, c)]
  ELSE newClient(p, c)

\* client.release() of a checked-out client
pgRelease(p, k) ==
  IF p.ending
    THEN pulseQueue([p EXCEPT !.clients[k] = "removed"])
    ELSE pulseQueue([p EXCEPT !.clients[k] = "idle", !.idle = Append(@, k)])

\* pool.end() on a pool that is not ending yet
pgEnd(p) == pulseQueue([p EXCEPT !.ending = TRUE])

inPending(p, c) == \E i \in 1..Len(p.pending) : p.pending[i] = c

removeWhere(q, c) == SelectSeq(q, LAMBDA x : x # c)

cfgVars == <<cfgHook, pgInstalled>>

\* no call returned in the step just taken
NoEvent == <<0, "none", "none">>

\* ------------------------------------------------------------------ base class
\* guards that forget the lifecycle state
initValidAlways == TRUE
destroyValidAlways == TRUE
acquireValidAlways == TRUE

\* the failure acquire() reports when the pool's connect() rejects
acquisitionError == "ConnectionAcquisitionError"

initValid == state = "Uninitialized" /\ ~initCalled
destroyValid == state = "Initialized"
acquireValid == state = "Initialized"
releaseValid == state = "Initialized"

\* ------------------------------------------------------------------ Init
Init ==
  /\ state = "Uninitialized"
  /\ initCalled = FALSE
  /\ pool = 0
  /\ connections = [k \in Clients |-> 0]
  /\ wrappers = <<>>
  /\ pgPool = NoPool
  /\ poolsCreated = 0
  /\ endCalls = 0
  /\ hookCalls = [k \in Clients |-> 0]
  /\ firstConn = [k \in Clients |-> 0]
  /\ pc = [c \in Callers |-> "idle"]
  /\ conn = [c \in Callers |-> 0]
  /\ held = [c \in Callers |-> {}]
  /\ kept = [c \in Callers |-> {}]
  /\ ev = NoEvent
  /\ sent = [c \in Callers |-> 0]
  /\ cfgHook \in BOOLEAN
  /\ pgInstalled \in BOOLEAN



\* ------------------------------------------------------------------ init
\* init(): the base class's guard, then initImpl up to `await importPg()`.
init(c) ==
  /\ pc[c] = "idle"
  /\ IF initValid
       THEN /\ initCalled' = TRUE
            /\ pc' = [pc EXCEPT ![c] = "init_import"]
            /\ ev' = NoEvent
       ELSE /\ ev' = <<c, "init", "InvalidStateError">>
            /\ UNCHANGED <<initCalled, pc>>
  /\ UNCHANGED <<state, pool, connections, wrappers, pgPool, poolsCreated,
                 endCalls, hookCalls, firstConn, conn, held, kept, cfgVars, sent>>

\* import('pg'): returns a promise at once and never throws synchronously; the
\* promise settles with the module, or rejects with the module loader's error
dynamicImport ==
  [threw |-> FALSE,
   settled |-> IF pgInstalled THEN "pg" ELSE "ModuleNotFoundError"]

\* importPg(): `return import('pg')` hands the pending promise out of the try
\* block, so the catch clause runs only for a synchronous throw; a rejection of
\* the import is the rejection of importPg() itself
importPg ==
  LET imported == dynamicImport
  IN  IF imported.threw THEN "MissingDependencyError" ELSE imported.settled

\* initImpl after importPg() settles: this.#pool = new pg.Pool({...})
initImpl(c) ==
  /\ pc[c] = "init_import"
  /\ IF importPg = "pg"
       THEN /\ poolsCreated' = poolsCreated + 1
            /\ pool' = poolsCreated + 1
            /\ pgPool' = newPool(config)
            /\ pc' = [pc EXCEPT ![c] = "init_ret"]
            /\ ev' = NoEvent
       ELSE /\ pc' = [pc EXCEPT ![c] = "idle"]
            /\ ev' = <<c, "init", importPg>>
            /\ UNCHANGED <<poolsCreated, pool, pgPool>>
  /\ UNCHANGED <<state, initCalled, connections, wrappers, endCalls, hookCalls,
                 firstConn, conn, held, kept, cfgVars, sent>>

\* init() after initImpl has returned
initReturn(c) ==
  /\ pc[c] = "init_ret"
  /\ state' = "Initialized"
  /\ pc' = [pc EXCEPT ![c] = "idle"]
  /\ ev' = <<c, "init", "ok">>
  /\ UNCHANGED <<initCalled, pool, connections, wrappers, pgPool, poolsCreated,
                 endCalls, hookCalls, firstConn, conn, held, kept, cfgVars, sent>>

\* ------------------------------------------------------------------ destroy
\* destroyImpl that does not clear this.#pool
destroyImplKeepsPool(c) ==
  IF pool # 0
    THEN /\ pool' = pool
         /\ endCalls' = endCalls + 1
         /\ IF pgPool.ending
              THEN /\ pgPool' = pgPool
                   /\ pc' = [pc EXCEPT ![c] = "idle"]
                   /\ ev' = <<c, "destroy", "BackendError">>
              ELSE /\ pgPool' = pgEnd(pgPool)
                   /\ pc' = [pc EXCEPT ![c] = "destroy_end"]
                   /\ ev' = NoEvent
    ELSE /\ pc' = [pc EXCEPT ![c] = "destroy_ret"]
         /\ ev' = NoEvent
         /\ UNCHANGED <<pool, endCalls, pgPool>>

\* destroy(): the base class's guard, then destroyImpl up to `await pool.end()`.
destroyImpl(c) ==
  IF pool # 0
    THEN /\ pool' = 0
         /\ endCalls' = endCalls + 1
         /\ IF pgPool.ending
              THEN /\ pgPool' = pgPool
                   /\ pc' = [pc EXCEPT ![c] = "idle"]
                   /\ ev' = <<c, "destroy", "BackendError">>
              ELSE /\ pgPool' = pgEnd(pgPool)
                   /\ pc' = [pc EXCEPT ![c] = "destroy_end"]
                   /\ ev' = NoEvent
    ELSE /\ pc' = [pc EXCEPT ![c] = "destroy_ret"]
         /\ ev' = NoEvent
         /\ UNCHANGED <<pool, endCalls, pgPool>>

destroy(c) ==
  /\ pc[c] = "idle"
  /\ IF destroyValid
       THEN destroyImpl(c)
       ELSE /\ ev' = <<c, "destroy", "ok">>
            /\ UNCHANGED <<pool, endCalls, pgPool, pc>>
  /\ UNCHANGED <<state, initCalled, connections, wrappers, poolsCreated,
                 hookCalls, firstConn, conn, held, kept, cfgVars, sent>>

\* destroyImpl after `await pool.end()`: the drain has completed
destroyImplResume(c) ==
  /\ pc[c] = "destroy_end"
  /\ pgPool.ended
  /\ pc' = [pc EXCEPT ![c] = "destroy_ret"]
  /\ ev' = NoEvent
  /\ UNCHANGED <<driverVars, conn, held, kept, cfgVars, sent>>

\* destroy() after destroyImpl has returned
destroyReturn(c) ==
  /\ pc[c] = "destroy_ret"
  /\ state' = "Destroyed"
  /\ pc' = [pc EXCEPT ![c] = "idle"]
  /\ ev' = <<c, "destroy", "ok">>
  /\ UNCHANGED <<initCalled, pool, connections, wrappers, pgPool, poolsCreated,
                 endCalls, hookCalls, firstConn, conn, held, kept, cfgVars, sent>>

\* ------------------------------------------------------------------ acquire
\* a lookup that never finds the entry
cacheGetMiss(k) == 0

\* the hook invoked outside `if (!connection)`
runsHookAlways(isNew) == cfgHook

\* this.#connections.get(client)
cacheGet(k) == connections[k]

\* the creation hook runs inside `if (!connection)` and only when configured
runsHook(isNew) == isNew /\ cfgHook

\* acquireConnectionImpl up to `await this.#pool!.connect()`
acquireConnectionImpl(c) ==
  IF pool = 0
    THEN /\ ev' = <<c, "acquire", "TypeError">>
         /\ UNCHANGED <<pgPool, pc>>
    ELSE /\ pgPool' = pgConnect(pgPool, c)
         /\ pc' = [pc EXCEPT ![c] = "acq_wait"]
         /\ ev' = NoEvent

\* acquire(): the base class's guard, then acquireConnectionImpl.
acquire(c) ==
  /\ pc[c] = "idle"
  /\ (acquireValid /\ pool # 0 /\ ~pgPool.ending /\ ~isFull(pgPool) /\ pgPool.idle = <<>>)
        => hasFresh(pgPool)
  /\ IF acquireValid
       THEN acquireConnectionImpl(c)
       ELSE /\ ev' = <<c, "acquire", "InvalidStateError">>
            /\ UNCHANGED <<pgPool, pc>>
  /\ UNCHANGED <<state, initCalled, pool, connections, wrappers, poolsCreated,
                 endCalls, hookCalls, firstConn, conn, held, kept, cfgVars, sent>>

\* acquireConnectionImpl after connect() settles: cache lookup, wrapper creation,
\* hook invocation (up to `await onCreateConnection(connection)`), or return.
acquireResume(c) ==
  /\ pc[c] = "acq_wait"
  /\ pgPool.reply[c] # 0
  /\ pgPool' = [pgPool EXCEPT !.reply[c] = 0]
  /\ IF pgPool.reply[c] = -1
       THEN /\ pc' = [pc EXCEPT ![c] = "idle"]
            /\ ev' = <<c, "acquire", acquisitionError>>
            /\ UNCHANGED <<connections, wrappers, hookCalls, firstConn, conn, held>>
       ELSE LET k == pgPool.reply[c]
                isNew == cacheGet(k) = 0
                w == IF isNew THEN Len(wrappers) + 1 ELSE cacheGet(k)
            IN  /\ wrappers' = IF isNew THEN Append(wrappers, k) ELSE wrappers
                /\ connections' = IF isNew THEN [connections EXCEPT ![k] = w]
                                           ELSE connections
                /\ firstConn' = IF firstConn[k] = 0 THEN [firstConn EXCEPT ![k] = w]
                                                    ELSE firstConn
                /\ IF runsHook(isNew)
                     THEN /\ hookCalls' = [hookCalls EXCEPT ![k] = @ + 1]
                          /\ pc' = [pc EXCEPT ![c] = "acq_hook"]
                          /\ conn' = [conn EXCEPT ![c] = w]
                          /\ ev' = NoEvent
                          /\ UNCHANGED held
                     ELSE /\ pc' = [pc EXCEPT ![c] = "idle"]
                          /\ held' = [held EXCEPT ![c] = @ \cup {w}]
                          /\ ev' = <<c, "acquire", "ok">>
                          /\ UNCHANGED <<hookCalls, conn>>
  /\ UNCHANGED <<state, initCalled, pool, poolsCreated, endCalls, kept, cfgVars, sent>>

\* the hook's promise resolves: return connection
hookResolves(c) ==
  /\ pc[c] = "acq_hook"
  /\ pc' = [pc EXCEPT ![c] = "idle"]
  /\ held' = [held EXCEPT ![c] = @ \cup {conn[c]}]
  /\ conn' = [conn EXCEPT ![c] = 0]
  /\ ev' = <<c, "acquire", "ok">>
  /\ UNCHANGED <<driverVars, kept, cfgVars, sent>>

\* the hook's promise rejects: the acquire fails with the hook's error
hookRejects(c) ==
  /\ pc[c] = "acq_hook"
  /\ pc' = [pc EXCEPT ![c] = "idle"]
  /\ conn' = [conn EXCEPT ![c] = 0]
  /\ ev' = <<c, "acquire", "HookError">>
  /\ UNCHANGED <<driverVars, held, kept, cfgVars, sent>>

\* ------------------------------------------------------------------ release
\* pgConnection[PRIVATE_RELEASE_METHOD]() is this.#client.release()
releaseConnectionImpl(c, w) ==
  LET k == wrappers[w] IN
  IF pgPool.clients[k] = "out"
    THEN /\ pgPool' = pgRelease(pgPool, k)
         /\ ev' = <<c, "release", "ok">>
    ELSE /\ pgPool' = pgPool
         /\ ev' = <<c, "release", "BackendError">>

\* release(connection): the base class's guard, then releaseConnectionImpl.
release(c, w) ==
  /\ pc[c] = "idle"
  /\ w \in held[c] \cup kept[c]
  /\ IF releaseValid
       THEN /\ releaseConnectionImpl(c, w)
            /\ held' = [held EXCEPT ![c] = @ \ {w}]
            /\ kept' = [kept EXCEPT ![c] = @ \cup {w}]
       ELSE /\ ev' = <<c, "release", "InvalidStateError">>
            /\ UNCHANGED <<pgPool, held, kept>>
  /\ UNCHANGED <<state, initCalled, pool, connections, wrappers, poolsCreated,
                 endCalls, hookCalls, firstConn, pc, conn, cfgVars, sent>>

\* ------------------------------------------------------------------ executeQuery
\* What client.query() settles with.  A fulfilled result has the statement's
\* command kind, the affected-row count and the rows (no rows, or as many as the
\* count; a SELECT's count is its number of rows); a rejection has the backend's
\* error.
Commands == {"SELECT", "INSERT", "UPDATE", "DELETE"}
RowValues == {"a", "b"}
BackendErrors == {"unique_violation", "syntax_error", "connection_lost"}
Rows == UNION {[1..n -> RowValues] : n \in 0..MaxRows}

Fulfilled ==
  {r \in [error : {"none"}, command : Commands, rowCount : 0..MaxRows, rows : Rows] :
     \/ Len(r.rows) = r.rowCount
     \/ r.rows = <<>> /\ r.command # "SELECT"}

Rejected ==
  [error : BackendErrors, command : {"none"}, rowCount : {0}, rows : {<<>>}]

Responses == Fulfilled \cup Rejected

\* one fulfilled and one rejected answer, for the specification of the driver's
\* calls, where the statement's answer is not what is examined
SomeResponses ==
  {r \in Responses :
     \/ r.command = "UPDATE" /\ r.rowCount = 1 /\ r.rows = <<>>
     \/ r.error = "syntax_error"}

\* `undefined` in a QueryResult
Undefined == -1

\* a result that reports the row count of an UPDATE only
queryResultUpdateOnly(r) ==
  [numUpdatedOrDeletedRows |->
     IF r.command = "UPDATE" THEN r.rowCount ELSE Undefined,
   insertedPrimaryKey |-> Undefined,
   rows |-> r.rows]

\* the object executeQuery returns for the backend's result r
queryResult(r) ==
  [numUpdatedOrDeletedRows |->
     IF r.command = "UPDATE" \/ r.command = "DELETE" THEN r.rowCount ELSE Undefined,
   insertedPrimaryKey |-> Undefined,
   rows |-> r.rows]

\* an error that does not carry the backend's
thrownErrorGeneric(r) == "query_failed"

\* the error executeQuery rejects with when client.query() rejects with r.error:
\* nothing catches it, the await rethrows it as it is
thrownError(r) == r.error

\* executeQuery up to `await this.#client.query(...)`: the statement is sent
executeQuery(c, w) ==
  /\ pc[c] = "idle"
  /\ w \in held[c] \cup kept[c]
  /\ pc' = [pc EXCEPT ![c] = "query"]
  /\ conn' = [conn EXCEPT ![c] = w]
  /\ sent' = [sent EXCEPT ![c] = 1]
  /\ ev' = NoEvent
  /\ UNCHANGED <<driverVars, held, kept, cfgVars>>

\* executeQuery after client.query() settled with r: it returns the result object
\* or rejects with the error; ev also records r and how often this call sent the
\* statement
executeQueryResume(c, r) ==
  /\ pc[c] = "query"
  /\ pc' = [pc EXCEPT ![c] = "idle"]
  /\ conn' = [conn EXCEPT ![c] = 0]
  /\ sent' = [sent EXCEPT ![c] = 0]
  /\ ev' = IF r.error = "none"
             THEN <<c, "executeQuery", "ok", r, queryResult(r), sent[c]>>
             ELSE <<c, "executeQuery", "error", r, thrownError(r), sent[c]>>
  /\ UNCHANGED <<driverVars, held, kept, cfgVars>>

\* ------------------------------------------------------------------ the pool's own steps
callerVars == <<pc, conn, held, kept>>
codeVars == <<state, initCalled, pool, connections, wrappers, poolsCreated,
              endCalls, hookCalls, firstConn>>

\* a new client's connection is established: it is handed to the caller it was made for
PoolConnected(k) ==
  /\ pgPool.clients[k] = "connecting"
  /\ pgPool' = [pgPool EXCEPT !.clients[k] = "out", !.reply[pgPool.connFor[k]] = k]
  /\ ev' = NoEvent
  /\ UNCHANGED <<codeVars, callerVars, cfgVars, sent>>

\* a new client cannot connect: the caller's connect() rejects
PoolConnectFails(k) ==
  /\ pgPool.clients[k] = "connecting"
  /\ pgPool.pending # <<>> /\ ~pgPool.ending => \E j \in Clients \ {k} : pgPool.clients[j] = "none"
  /\ pgPool' = pulseQueue([pgPool EXCEPT !.clients[k] = "removed",
                                         !.reply[pgPool.connFor[k]] = -1])
  /\ ev' = NoEvent
  /\ UNCHANGED <<codeVars, callerVars, cfgVars, sent>>

\* connectionTimeoutMillis elapses for a queued connect()
PoolTimeout(c) ==
  /\ pgPool.connectionTimeoutMillis > 0
  /\ inPending(pgPool, c)
  /\ pgPool' = [pgPool EXCEPT !.pending = removeWhere(@, c), !.reply[c] = -1]
  /\ ev' = NoEvent
  /\ UNCHANGED <<codeVars, callerVars, cfgVars, sent>>

\* the pulse scheduled by a connect() that found an idle client
PoolPulse ==
  /\ ~pgPool.ending
  /\ pgPool.pending # <<>>
  /\ pgPool.idle # <<>>
  /\ pgPool' = pulseQueue(pgPool)
  /\ ev' = NoEvent
  /\ UNCHANGED <<codeVars, callerVars, cfgVars, sent>>

\* idleTimeoutMillis elapses for an idle client: the pool closes it
PoolIdleTimeout(k) ==
  /\ pgPool.clients[k] = "idle"
  /\ pgPool.pending = <<>>
  /\ pgPool' = [pgPool EXCEPT !.clients[k] = "removed", !.idle = removeWhere(@, k)]
  /\ ev' = NoEvent
  /\ UNCHANGED <<codeVars, callerVars, cfgVars, sent>>

\* ------------------------------------------------------------------ specification
Next ==
  \/ \E c \in Callers : init(c)
  \/ \E c \in Callers : initImpl(c)
  \/ \E c \in Callers : initReturn(c)
  \/ \E c \in Callers : destroy(c)
  \/ \E c \in Callers : destroyImplResume(c)
  \/ \E c \in Callers : destroyReturn(c)
  \/ \E c \in Callers : acquire(c)
  \/ \E c \in Callers : acquireResume(c)
  \/ \E c \in Callers : hookResolves(c)
  \/ \E c \in Callers : hookRejects(c)
  \/ \E c \in Callers : \E w \in 1..Len(wrappers) : release(c, w)
  \/ \E c \in Callers : \E w \in 1..Len(wrappers) : executeQuery(c, w)
  \/ \E c \in Callers : \E r \in SomeResponses : executeQueryResume(c, r)
  \/ \E k \in Clients : PoolConnected(k)
  \/ \E k \in Clients : PoolConnectFails(k)
  \/ \E c \in Callers : PoolTimeout(c)
  \/ PoolPulse
  \/ \E k \in Clients : PoolIdleTimeout(k)

Spec == Init /\ [][Next]_vars

TypeOK ==
  /\ state \in {"Uninitialized", "Initialized", "Destroyed"}
  /\ pool \in 0..poolsCreated
  /\ \A k \in Clients : connections[k] \in 0..Len(wrappers)
  /\ \A c \in Callers : held[c] \cup kept[c] \subseteq 1..Len(wrappers)
  /\ \A c \in Callers : pgPool.reply[c] \in Clients \cup {-1, 0}

\* The event loop runs a settled promise's continuation, the pool's timer of a
\* queued connect() fires, and a connection attempt ends (the pool bounds it by
\* the same timeout).
LiveSpec ==
  /\ Init /\ [][Next]_vars
  /\ \A c \in Callers : WF_vars(PoolTimeout(c)) /\ WF_vars(acquireResume(c))
  /\ \A k \in Clients : WF_vars(PoolConnected(k) \/ PoolConnectFails(k))

\* ------------------------------------------------------------------ executeQuery alone
\* The driver after init and one acquire: caller h holds the wrapper of client 1
\* (with or without a creation hook).  From there the callers run statements and
\* the backend answers with any of Responses.
InitQuery ==
  \E h \in Callers :
    /\ state = "Initialized"
    /\ initCalled = TRUE
    /\ pool = 1
    /\ poolsCreated = 1
    /\ pgPool = [newPool(config) EXCEPT !.clients[1] = "out", !.connFor[1] = h]
    /\ wrappers = <<1>>
    /\ connections = [k \in Clients |-> IF k = 1 THEN 1 ELSE 0]
    /\ firstConn = [k \in Clients |-> IF k = 1 THEN 1 ELSE 0]
    /\ cfgHook \in BOOLEAN
    /\ hookCalls = [k \in Clients |-> IF k = 1 /\ cfgHook THEN 1 ELSE 0]
    /\ endCalls = 0
    /\ pc = [c \in Callers |-> "idle"]
    /\ conn = [c \in Callers |-> 0]
    /\ held = [c \in Callers |-> IF c = h THEN {1} ELSE {}]
    /\ kept = [c \in Callers |-> {}]
    /\ sent = [c \in Callers |-> 0]
    /\ ev = <<h, "acquire", "ok">>
    /\ pgInstalled = TRUE

NextQuery ==
  \/ \E c \in Callers : \E w \in 1..Len(wrappers) : executeQuery(c, w)
  \/ \E c \in Callers : \E r \in Responses : executeQueryResume(c, r)

QuerySpec == InitQuery /\ [][NextQuery]_vars

\* ------------------------------------------------------------------ claims
\* physical connections checked out of the pool
Outstanding == Cardinality({k \in Clients : pgPool.clients[k] = "out"})

inProgress(c) == pc[c] \in {"init_import", "init_ret", "destroy_end", "destroy_ret"}

\* C1: with a creation hook configured, the hook has been invoked exactly once for
\* every physical connection some acquire has obtained, however often it was
\* obtained again, and never for one no acquire has obtained.
C1_HookExactlyOnce ==
  cfgHook => \A k \in Clients : hookCalls[k] = IF firstConn[k] # 0 THEN 1 ELSE 0

\* a caller holds a wrapper that was released before (the pool reused the client),
\* and the hook ran once for it
C1_Witness ==
  /\ cfgHook
  /\ \E c, d \in Callers : \E w \in held[c] \cap kept[d] :
       /\ ev = <<c, "acquire", "ok">>
       /\ hookCalls[wrappers[w]] = 1

\* C2: the cache maps each physical connection to the wrapper the first acquire of
\* it created, that wrapper wraps this connection, and every wrapper an acquire
\* hands to a caller is that first wrapper.
C2_SameWrapperPerHandle ==
  /\ \A k \in Clients : connections[k] = firstConn[k]
  /\ \A k \in Clients : connections[k] # 0 => wrappers[connections[k]] = k
  /\ \A c \in Callers : \A w \in held[c] : firstConn[wrappers[w]] = w

\* without a hook: an acquire returned a wrapper that had been released before
C2_Witness ==
  /\ ~cfgHook
  /\ \E c, d \in Callers : \E w \in held[c] \cap kept[d] :
       /\ ev = <<c, "acquire", "ok">>
       /\ connections[wrappers[w]] = w

\* C3: at most maxConnections physical connections are checked out, and a connect()
\* queued while maxConnections are checked out is resolved with a connection only
\* by a step in which a release succeeds.
C3_AtMostMaxOutstanding ==
  /\ [](Outstanding <= MaxConnections)
  /\ [][\A c \in Callers :
          (inPending(pgPool, c) /\ Outstanding = MaxConnections
             /\ pgPool'.reply[c] \in Clients)
          => (ev'[2] = "release" /\ ev'[3] = "ok")]_vars

\* a release handed its connection to the acquire that was waiting for it
C3_Witness ==
  \E c \in Callers :
    /\ pc[c] = "acq_wait"
    /\ pgPool.reply[c] \in Clients
    /\ ev[2] = "release" /\ ev[3] = "ok"
    /\ Outstanding = MaxConnections

\* C4: no two callers have an executeQuery in flight on the same physical connection.
C4_ExclusiveUse ==
  \A c, d \in Callers :
    (c # d /\ pc[c] = "query" /\ pc[d] = "query")
      => wrappers[conn[c]] # wrappers[conn[d]]

\* C5: an acquire queued by the exhausted pool eventually leaves the queue and
\* resumes (with a connection, or failing on the timeout).
C5_SuspendedAcquireCompletes ==
  \A c \in Callers :
    inPending(pgPool, c) ~> (~inPending(pgPool, c) /\ pc[c] # "acq_wait")

\* the queued acquire of one caller timed out while another caller held the connection
C5_Witness ==
  \E c, d \in Callers :
    /\ c # d
    /\ ev = <<c, "acquire", acquisitionError>>
    /\ held[d] # {}
    /\ Outstanding = MaxConnections

\* C6: a destroy called while the driver is Uninitialized or Destroyed returns at
\* once without error and changes nothing of the driver or the pool (no end()).
C6_DestroyNoOp ==
  [][\A c \in Callers :
       (destroy(c) /\ state # "Initialized")
       => (ev' = <<c, "destroy", "ok">> /\ pc'[c] = "idle" /\ UNCHANGED driverVars)]_vars

\* a destroy returned on a driver that was never initialized
C6_Witness ==
  /\ state = "Uninitialized"
  /\ pool = 0 /\ endCalls = 0
  /\ \E c \in Callers : ev = <<c, "destroy", "ok">>

\* C7: an init called on an Initialized driver fails with InvalidStateError and
\* leaves the pool handle alone; the driver never constructs a second pool.
C7_SecondInitFails ==
  /\ [](poolsCreated <= 1)
  /\ [][\A c \in Callers :
          (init(c) /\ state = "Initialized")
          => (ev' = <<c, "init", "InvalidStateError">> /\ pc'[c] = "idle"
              /\ UNCHANGED <<pool, pgPool, poolsCreated, state>>)]_vars

\* the second init failed and the first pool is still the driver's
C7_Witness ==
  /\ state = "Initialized"
  /\ pool = 1 /\ poolsCreated = 1
  /\ \E c \in Callers : ev = <<c, "init", "InvalidStateError">>

\* C8: an acquire called while the driver is Destroyed or Uninitialized fails with
\* InvalidStateError in the same step: nothing is asked of the pool, no wrapper is
\* created, no cache entry is added and no hook is invoked.
C8_AcquireOutsideLifecycleFails ==
  [][\A c \in Callers :
       (acquire(c) /\ state # "Initialized")
       => (ev' = <<c, "acquire", "InvalidStateError">> /\ pc'[c] = "idle"
           /\ UNCHANGED <<pgPool, connections, wrappers, hookCalls, held>>)]_vars

\* an acquire failed on a destroyed driver
C8_Witness ==
  /\ state = "Destroyed"
  /\ \E c \in Callers : ev = <<c, "acquire", "InvalidStateError">>

\* C9 as stated: in every state the pool handle is non-null iff the state is Initialized.
C9_PoolIffInitialized == (pool # 0) <=> (state = "Initialized")

\* C9 as amended: whenever no init and no destroy call is in progress, the pool
\* handle is non-null iff the state is Initialized.
C9_PoolIffInitializedWhenQuiescent ==
  (\A c \in Callers : ~inProgress(c)) => ((pool # 0) <=> (state = "Initialized"))

\* a destroy has completed after connections had been in use
C9_Witness ==
  /\ \A c \in Callers : ~inProgress(c)
  /\ state = "Destroyed" /\ pool = 0
  /\ wrappers # <<>>

\* C10: when a destroy call returns, the pool it asked (or an earlier destroy asked)
\* to end has finished draining.
C10_DestroyWaitsForDrain ==
  (ev[2] = "destroy" /\ ev[3] = "ok") => (pgPool.ending => pgPool.ended)

C11_ReleaseDuringDrain ==
  [][\A c \in Callers : \A w \in held[c] :
       (release(c, w) /\ pgPool.ending /\ pgPool.clients[wrappers[w]] = "out"
          /\ state = "Initialized")
       => (ev' = <<c, "release", "ok">> /\ pgPool'.clients[wrappers[w]] # "out")]_vars

\* C12: a release of a wrapper its caller has already released (and does not hold
\* again) fails, and changes nothing in the pool: the connection is not handed
\* back a second time.
C12_SecondReleaseFails ==
  [][\A c \in Callers : \A w \in kept[c] \ held[c] :
       release(c, w) => (ev'[3] # "ok" /\ pgPool' = pgPool)]_vars

\* the second release fails when the connection is not checked out at that moment
C12_SecondReleaseOfIdleFails ==
  [][\A c \in Callers : \A w \in kept[c] \ held[c] :
       (release(c, w) /\ pgPool.clients[wrappers[w]] # "out")
       => (ev'[3] # "ok" /\ pgPool' = pgPool)]_vars

\* C13: when the client library is not installed, an init that got as far as
\* loading it fails with the missing-dependency error that names the package to
\* install, and no pool has been created.
C13_MissingDependencyError ==
  (~pgInstalled /\ ev[2] = "init" /\ ev[3] # "InvalidStateError")
    => (ev[3] = "MissingDependencyError" /\ pool = 0 /\ poolsCreated = 0)

\* without the library no pool is ever created and the driver stays Uninitialized
C13_NoPoolWithoutLibrary ==
  ~pgInstalled => (pool = 0 /\ poolsCreated = 0 /\ state = "Uninitialized")

\* the start of QuerySpec is a state the driver reaches
InitQueryReached == InitQuery

\* C14: the result executeQuery returns has numUpdatedOrDeletedRows equal to the
\* backend's affected-row count when the command is UPDATE or DELETE and absent
\* for every other command, insertedPrimaryKey absent, and the backend's rows in
\* the backend's order.
C14_QueryResult ==
  (ev[2] = "executeQuery" /\ ev[3] = "ok")
    => /\ ev[4].command \in {"UPDATE", "DELETE"}
            => ev[5].numUpdatedOrDeletedRows = ev[4].rowCount
       /\ ev[4].command \notin {"UPDATE", "DELETE"}
            => ev[5].numUpdatedOrDeletedRows = Undefined
       /\ ev[5].insertedPrimaryKey = Undefined
       /\ ev[5].rows = ev[4].rows

\* a DELETE that affected two rows and returned them, "b" before "a"
C14_Witness ==
  /\ ev[2] = "executeQuery" /\ ev[3] = "ok"
  /\ ev[4].command = "DELETE" /\ ev[4].rowCount = 2 /\ ev[4].rows = <<"b", "a">>
  /\ ev[5].numUpdatedOrDeletedRows = 2
  /\ ev[5].rows = <<"b", "a">>

\* C15: when the backend fails a statement, executeQuery fails (it returns no
\* result) with the backend's own error, and the call that failed has sent the
\* statement once and is over.
C15_BackendFailurePropagates ==
  (ev[2] = "executeQuery" /\ ev[4].error # "none")
    => /\ ev[3] = "error"
       /\ ev[5] = ev[4].error
       /\ ev[6] = 1
       /\ pc[ev[1]] = "idle" /\ sent[ev[1]] = 0

\* a statement failed on a unique violation, and the caller got that error
C15_Witness ==
  /\ ev[2] = "executeQuery" /\ ev[3] = "error"
  /\ ev[4].error = "unique_violation"
  /\ ev[5] = "unique_violation"
  /\ ev[6] = 1

\* C16: when init has returned, the pool has no physical connection (whether the
\* backend can be reached plays no part in init); and an acquire whose connect()
\* the pool rejects fails with ConnectionAcquisitionError in the step that resumes
\* it, asks nothing more of the pool, creates no wrapper, adds no cache entry,
\* invokes no hook, hands the caller nothing and leaves the lifecycle state alone.
C16_LazyInitAndAcquireFailure ==
  /\ [](\A c \in Callers :
          ev = <<c, "init", "ok">>
            => (state = "Initialized" /\ \A k \in Clients : pgPool.clients[k] = "none"))
  /\ [][\A c \in Callers :
          (acquireResume(c) /\ pgPool.reply[c] = -1)
          => /\ ev' = <<c, "acquire", "ConnectionAcquisitionError">>
             /\ pc'[c] = "idle"
             /\ pgPool' = [pgPool EXCEPT !.reply[c] = 0]
             /\ UNCHANGED <<wrappers, connections, hookCalls, held, state>>]_vars

\* after a successful init the first connection attempt failed: the acquire failed,
\* the driver is Initialized and has no wrapper and no cache entry
C16_Witness ==
  /\ state = "Initialized"
  /\ \E c \in Callers : ev = <<c, "acquire", "ConnectionAcquisitionError">>
  /\ wrappers = <<>>
  /\ \A k \in Clients : connections[k] = 0 /\ hookCalls[k] = 0
  /\ \A k \in Clients : pgPool.clients[k] \in {"none", "removed"}

\* C17: the cache changes only in the step that resumes an acquire whose connect()
\* yielded a connection, only by adding an entry for that connection, which had
\* none and whose hook has not been started; every other step (release, destroy,
\* init, executeQuery, the hook's completion, the pool's own) leaves it unchanged,
\* and an entry, once there, is never removed or replaced.  A hook is only ever
\* started for a connection that has its entry.
C17_CacheOnlyGrowsInAcquire ==
  /\ [](\A k \in Clients : hookCalls[k] > 0 => connections[k] # 0)
  /\ [][connections' # connections
          => \E c \in Callers :
               /\ acquireResume(c)
               /\ pgPool.reply[c] \in Clients
               /\ LET k == pgPool.reply[c]
                  IN  /\ connections[k] = 0 /\ hookCalls[k] = 0
                      /\ connections' = [connections EXCEPT ![k] = Len(wrappers')]
                      /\ wrappers'[connections'[k]] = k]_vars

\* a connection was acquired, released and destroyed with the driver, and its
\* cache entry is still the wrapper of the first acquire
C17_Witness ==
  /\ state = "Destroyed"
  /\ pgPool.ended
  /\ \E c \in Callers : \E w \in kept[c] :
       /\ connections[wrappers[w]] = w
       /\ pgPool.clients[wrappers[w]] = "removed"

\* C18: pool.end() is called at most once, and exactly once as soon as a destroy
\* has got past the guard of an initialized driver; while a destroy awaits the
\* drain the pool handle is already null, so a destroy that starts meanwhile
\* finds nothing to end.
C18_EndCalledOnce ==
  /\ endCalls <= 1
  /\ endCalls = (IF pgPool.ending THEN 1 ELSE 0)
  /\ \A c \in Callers : pc[c] = "destroy_end" => (pool = 0 /\ endCalls = 1)

\* one destroy awaits the drain (a connection is still checked out) while another
\* destroy has run destroyImpl and is about to return: end() was called once
C18_Witness ==
  \E c, d \in Callers :
    /\ c # d
    /\ pc[c] = "destroy_end" /\ pc[d] = "destroy_ret"
    /\ Outstanding = 1
    /\ endCalls = 1

\* no call is suspended and the pool is neither connecting nor serving a queue
quiescent ==
  /\ \A c \in Callers : pc[c] = "idle"
  /\ pgPool.pending = <<>>
  /\ \A k \in Clients : pgPool.clients[k] # "connecting"

\* C19: when an acquire fails after the pool yielded it a connection (the creation
\* hook rejected), that connection is not left checked out; and in every quiescent
\* state as many connections are checked out as wrappers are held by callers.
C19_NoLeakedConnection ==
  /\ [][\A c \in Callers :
          (pc[c] = "acq_hook" /\ ev' = <<c, "acquire", "HookError">>)
          => pgPool'.clients[wrappers[conn[c]]] # "out"]_vars
  /\ [](quiescent
          => Outstanding = Cardinality(UNION {held[c] : c \in Callers}))

====
